---------------------------- MODULE Spec2Model ----------------------------
(***************************************************************************)
(* A model of chargify-python (package chargify/chargify.py): the Chargify *)
(* facade (attribute chaining, construct_request, __call__) and the        *)
(* ChargifyHttpClient transport.                                           *)
(* The older top-level module chargify.py, which the package shadows and   *)
(* the tests do not exercise, is not modelled.                             *)
(*                                                                         *)
(* Python values are modelled as tagged records (kind, n, s, items) so     *)
(* that None, integers, strings and dicts can be told apart, tested for    *)
(* truthiness and converted with str().  A dict (kwargs, data) is a        *)
(* function from its keys to values; dict equality is function equality.   *)
(***************************************************************************)
EXTENDS Integers, Sequences, FiniteSets, TLC

VARIABLES
    facades,    \* the Chargify objects built so far, in creation order
    format_arg, \* the format argument of the caller's Chargify(...) call
    error,      \* the exception raised by the last constructor call ("none")
    pc,         \* position of the caller: "idle", "called", "resolved"
    self,       \* index in facades of the facade being invoked (0: none)
    kwargs,     \* the keyword arguments of the current invocation
    path,       \* construct_request's local variable path when it returned
    request,    \* the tuple construct_request returned (<<>>: none)
    sent,       \* argument tuples passed to client.make_request, in order
    response,   \* what requests.request gave the last ChargifyHttpClient call
    result,     \* what __call__ gave its caller: returned value or exception
    callers     \* the threads of the concurrent specification and their frames

vars ==
    <<facades, format_arg, error, pc, self, kwargs, path, request, sent,
      response, result, callers>>

-----------------------------------------------------------------------------
(* Bounds of the model *)

MaxPath == 3        \* longest chain of accessed names
MaxFacades == 3     \* facade objects alive in the lifecycle specification

-----------------------------------------------------------------------------
(* Python values *)

EmptyDict == [k \in {} |-> 0]

None == [kind |-> "none", n |-> 0, s |-> "", items |-> EmptyDict]

IntVal(i) == [kind |-> "int", n |-> i, s |-> "", items |-> EmptyDict]

StrVal(str) == [kind |-> "str", n |-> 0, s |-> str, items |-> EmptyDict]

DictVal(d) == [kind |-> "dict", n |-> 0, s |-> "", items |-> d]

\* Truthy as the test "value is not None"
Truthy_IsNotNone(v) == v.kind # "none"

\* bool(value): None, 0, '' and {} are falsy
Truthy(v) ==
    CASE v.kind = "none" -> FALSE
      [] v.kind = "int"  -> v.n # 0
      [] v.kind = "str"  -> v.s # ""
      [] v.kind = "dict" -> DOMAIN v.items # {}

\* str(value) for the kinds of value used as identifiers
Str(v) ==
    CASE v.kind = "none" -> "None"
      [] v.kind = "int"  -> ToString(v.n)
      [] v.kind = "str"  -> v.s

\* dict.pop(key, default): the value, and the dict without the key
DictGet(d, key, default) == IF key \in DOMAIN d THEN d[key] ELSE default

DictWithout(d, key) == [k \in DOMAIN d \ {key} |-> d[k]]

\* list.index(x), 0-based; -1 stands for ValueError
ListIndex(l, x) ==
    IF \E i \in 1..Len(l) : l[i] = x
    THEN (CHOOSE i \in 1..Len(l) : l[i] = x /\ \A j \in 1..(i - 1) : l[j] # x) - 1
    ELSE -1

\* list.insert(i, x) for 0 <= i <= len(l)
ListInsert(l, i, x) == SubSeq(l, 1, i) \o <<x>> \o SubSeq(l, i + 1, Len(l))

\* sep.join(l)
RECURSIVE Join(_, _)
Join(sep, l) ==
    IF Len(l) = 0 THEN ""
    ELSE IF Len(l) = 1 THEN l[1]
    ELSE l[1] \o sep \o Join(sep, Tail(l))

\* str.lower() on the format strings of the model
Lower(str) ==
    CASE str = "json" -> "json"
      [] str = "Json" -> "json"
      [] str = "xml"  -> "xml"
      [] str = "XML"  -> "xml"
      [] str = "csv"  -> "csv"
      [] str = "CSV"  -> "csv"
      [] str = ""     -> ""

-----------------------------------------------------------------------------
(* Module-level tables *)

VERBS == [create |-> "POST", read |-> "GET", update |-> "PUT", delete |-> "DELETE"]

\* in dict (definition) order, as IDENTIFIERS.items() iterates
IDENTIFIERS == <<
    <<"customer_id", "customers">>,
    <<"product_id", "products">>,
    <<"subscription_id", "subscriptions">>,
    <<"component_id", "components">>,
    <<"handle", "handle">>,
    <<"statement_id", "statements">>,
    <<"product_family_id", "product_families">>,
    <<"coupon_id", "coupons">>,
    <<"code_id", "codes">>,
    <<"transaction_id", "transactions">>,
    <<"usage_id", "usages">>,
    <<"migration_id", "migrations">>,
    <<"payment_profile_id", "payment_profiles">>,
    <<"invoice_id", "invoices">> >>

VALID_FORMATS == {"json", "xml"}

\* domain % sub_domain
Domain(sub_domain) == "https://" \o sub_domain \o ".chargify.com/"

-----------------------------------------------------------------------------
(* class Chargify *)

\* FormatCheckFails with the check left out
FormatCheckFails_Skipped(format) == FALSE

\* Chargify.__init__: the new object, or the AssertionError of the format check.
\* format is a Python value (None when not given); path <<>> stands for both
\* None and [] (path or []); client "None" selects ChargifyHttpClient().
FormatCheckFails(format) ==
    Truthy(format) /\ Lower(format.s) \notin VALID_FORMATS

Chargify_init(api_key, sub_domain, p, client, format) ==
    IF FormatCheckFails(format)
    THEN [raised |-> "AssertionError",
          obj |-> [api_key |-> "", sub_domain |-> "", path |-> <<>>,
                   client |-> "None", format |-> ""]]
    ELSE [raised |-> "none",
          obj |-> [api_key |-> api_key,
                   sub_domain |-> sub_domain,
                   path |-> p,
                   client |-> IF client = "None" THEN "ChargifyHttpClient" ELSE client,
                   format |-> IF Truthy(format) THEN format.s ELSE "json"]]

\* names that are real attributes of a Chargify object: __getattr__ is not
\* called for them
OwnAttributes ==
    {"api_key", "sub_domain", "path", "domain", "client", "format",
     "construct_request"}

\* Chargify_getattr appending to self.path in place and handing the same
\* list to the new object
Chargify_getattr_InPlace(fs, i, attr) ==
    LET grown == [fs EXCEPT ![i].path = Append(@, attr)]
    IN  [raised |-> "none", facades |-> Append(grown, grown[i])]

\* Chargify.__getattr__(attr) on the object fs[i] of the heap fs: the heap
\* afterwards, with the new object (path self.path + [attr], a new list)
\* last, or the exception of its constructor
Chargify_getattr(fs, i, attr) ==
    LET made == Chargify_init(fs[i].api_key, fs[i].sub_domain,
                              fs[i].path \o <<attr>>, fs[i].client,
                              StrVal(fs[i].format))
    IN  [raised |-> made.raised,
         facades |-> IF made.raised = "none" THEN Append(fs, made.obj) ELSE fs]

\* CopyPath binding the local name to the object's own list (path = self.path)
CopyPath_NoCopy(f) == [alias |-> TRUE, list |-> f.path]

\* line 158: path = self.path[:], a new list with the same names; alias says
\* whether the local name path refers to the list self.path itself
CopyPath(f) == [alias |-> FALSE, list |-> f.path]

\* PopAction removing every action name of the chain
PopAction_AllActions(p) ==
    LET NotAction(s) == s \notin DOMAIN VERBS IN SelectSeq(p, NotAction)

\* lines 162-166: the path after the trailing action name, if any, is popped
PopAction(p) ==
    IF p[Len(p)] \in DOMAIN VERBS THEN SubSeq(p, 1, Len(p) - 1) ELSE p

\* InferMethod taking the first action name anywhere in the chain
InferMethod_FirstAction(p) ==
    IF \E i \in DOMAIN p : p[i] \in DOMAIN VERBS
    THEN VERBS[p[CHOOSE i \in DOMAIN p :
                   /\ p[i] \in DOMAIN VERBS
                   /\ \A j \in 1..(i - 1) : p[j] \notin DOMAIN VERBS]]
    ELSE "GET"

\* lines 162-166: the HTTP method
InferMethod(p) ==
    IF p[Len(p)] \in DOMAIN VERBS THEN VERBS[p[Len(p)]] ELSE "GET"

\* line 174: path.insert(path.index(name) + 1, str(value)); raised is
\* "ValueError" when name is not in path
InsertIdentifier(p, name, value) ==
    IF ListIndex(p, name) = -1
    THEN [raised |-> "ValueError", path |-> p]
    ELSE [raised |-> "none",
          path |-> ListInsert(p, ListIndex(p, name) + 1, Str(value))]

\* ExtractIdentifiers removing a keyword only when its value is truthy
RECURSIVE ExtractIdentifiers_PopWhenTruthy(_, _)
ExtractIdentifiers_PopWhenTruthy(i, st) ==
    IF i > Len(IDENTIFIERS) \/ st.raised # "none" THEN st
    ELSE LET identifier == IDENTIFIERS[i][1]
             name == IDENTIFIERS[i][2]
             value == DictGet(st.kwargs, identifier, None)
         IN  IF Truthy(value)
             THEN LET ins == InsertIdentifier(st.path, name, value)
                  IN  ExtractIdentifiers_PopWhenTruthy(i + 1,
                          [raised |-> ins.raised, path |-> ins.path,
                           kwargs |-> DictWithout(st.kwargs, identifier)])
             ELSE ExtractIdentifiers_PopWhenTruthy(i + 1, st)

\* lines 169-174: the loop over IDENTIFIERS.items(), from its i-th entry on;
\* st is [raised, path, kwargs]
RECURSIVE ExtractIdentifiers(_, _)
ExtractIdentifiers(i, st) ==
    IF i > Len(IDENTIFIERS) \/ st.raised # "none" THEN st
    ELSE LET identifier == IDENTIFIERS[i][1]
             name == IDENTIFIERS[i][2]
             value == DictGet(st.kwargs, identifier, None)
             rest == DictWithout(st.kwargs, identifier)
         IN  IF Truthy(value)
             THEN LET ins == InsertIdentifier(st.path, name, value)
                  IN  ExtractIdentifiers(i + 1,
                          [raised |-> ins.raised, path |-> ins.path,
                           kwargs |-> rest])
             ELSE ExtractIdentifiers(i + 1,
                      [raised |-> "none", path |-> st.path, kwargs |-> rest])

\* PopData with None as the default
PopData_NoneDefault(kw) == DictGet(kw, "data", None)

\* line 177: data = kwargs.pop('data', {})
PopData(kw) == DictGet(kw, "data", DictVal(EmptyDict))

\* BuildUrl without format.lower()
BuildUrl_NoLower(f, p) ==
    Domain(f.sub_domain) \o Join("/", p) \o "." \o f.format

\* lines 180-181
BuildUrl(f, p) ==
    Domain(f.sub_domain) \o Join("/", p) \o "." \o Lower(f.format)

\* construct_request testing the last name only when the path has one
construct_request_GuardedPop(f, kw) ==
    LET empty == Len(f.path) = 0
        method == IF empty THEN "GET" ELSE InferMethod(f.path)
        st == ExtractIdentifiers(1,
                  [raised |-> "none",
                   path |-> IF empty THEN <<>> ELSE PopAction(f.path),
                   kwargs |-> kw])
    IN  IF st.raised # "none"
        THEN [raised |-> st.raised, self_path |-> f.path, path |-> <<>>,
              ret |-> <<>>]
        ELSE [raised |-> "none",
              self_path |-> f.path,
              path |-> st.path,
              ret |-> <<BuildUrl(f, st.path), method,
                        DictWithout(st.kwargs, "data"),
                        PopData(st.kwargs)>>]

\* Chargify.construct_request(**kw): [raised, self_path, path, ret] where ret
\* is the returned tuple (url, method, kwargs, data), path the local variable
\* path (a copy, self.path[:]) and self_path the object's path afterwards
construct_request(f, kw) ==
    IF Len(f.path) = 0
    THEN [raised |-> "IndexError", self_path |-> f.path, path |-> <<>>,
          ret |-> <<>>]
    ELSE LET method == InferMethod(f.path)
             st == ExtractIdentifiers(1,
                       [raised |-> "none", path |-> PopAction(f.path),
                        kwargs |-> kw])
         IN  IF st.raised # "none"
             THEN [raised |-> st.raised, self_path |-> f.path, path |-> <<>>,
                   ret |-> <<>>]
             ELSE [raised |-> "none",
                   self_path |-> f.path,
                   path |-> st.path,
                   ret |-> <<BuildUrl(f, st.path), method,
                             DictWithout(st.kwargs, "data"),
                             PopData(st.kwargs)>>]

-----------------------------------------------------------------------------
(* The transport *)

\* what a call gives its caller: a returned value or a raised exception
Returned(v) ==
    [kind |-> "returned", value |-> v, exc |-> "none", status_code |-> 0,
     error_data |-> None]

\* an exception that is not a ChargifyError
Raised(exc) ==
    [kind |-> "raised", value |-> <<>>, exc |-> exc, status_code |-> 0,
     error_data |-> None]

NoResult ==
    [kind |-> "none", value |-> <<>>, exc |-> "none", status_code |-> 0,
     error_data |-> None]

\* ChargifyError.__init__(status_code, error_data), raised as class exc_cls
ChargifyError_init(exc_cls, status_code, error_data) ==
    [kind |-> "raised", value |-> <<>>, exc |-> exc_cls,
     status_code |-> status_code,
     error_data |-> IF Truthy(error_data) THEN error_data ELSE DictVal(EmptyDict)]

STATUS_EXCEPTIONS ==
    [status \in {401, 403, 404, 409, 422, 500} |->
        CASE status = 401 -> "ChargifyUnauthorizedError"
          [] status = 403 -> "ChargifyForbiddenError"
          [] status = 404 -> "ChargifyNotFoundError"
          [] status = 409 -> "ChargifyDuplicateSubmissionError"
          [] status = 422 -> "ChargifyUnprocessableEntityError"
          [] status = 500 -> "ChargifyServerError"]

\* 'json' in content_type, for the content types of the model
HasJson(content_type) ==
    CASE content_type = "application/json" -> TRUE
      [] content_type = "application/json; charset=utf-8" -> TRUE
      [] content_type = "text/html" -> FALSE

\* whether response.json() can parse the body
JsonValid(body) == body \in {"{}", "{\"errors\": \"x\"}", "null"}

\* response.json() for the bodies of the model
JsonDecode(body) ==
    CASE body = "{}" -> DictVal(EmptyDict)
      [] body = "{\"errors\": \"x\"}" -> DictVal([k \in {"errors"} |-> StrVal("x")])
      [] body = "null" -> None

\* ChargifyHttpClient.make_request.  response is what requests.request gives:
\* [exc, status_code, content_type, body], exc # "none" when it raises and
\* content_type None when the header is missing ('json' in None is a
\* TypeError); response.json() raises on a body that is not JSON.
HttpClient_make_request(url, method, params, data, api_key, resp) ==
    IF resp.exc # "none" THEN Raised(resp.exc)
    ELSE IF resp.content_type.kind = "none" THEN Raised("TypeError")
    ELSE LET is_json == HasJson(resp.content_type.s)
         IN  IF is_json /\ ~JsonValid(resp.body) THEN Raised("JSONDecodeError")
             ELSE IF resp.status_code < 400
             THEN IF is_json THEN Returned(JsonDecode(resp.body))
                  ELSE Returned(StrVal(resp.body))
             ELSE LET exc_cls ==
                          IF resp.status_code \in DOMAIN STATUS_EXCEPTIONS
                          THEN STATUS_EXCEPTIONS[resp.status_code]
                          ELSE "ChargifyError"
                      error_data ==
                          IF is_json THEN JsonDecode(resp.body)
                          ELSE DictVal([k \in {"body"} |-> StrVal(resp.body)])
                  IN  ChargifyError_init(exc_cls, resp.status_code, error_data)

\* ChargifyHttpClientStub.make_request of the tests
Stub_make_request(url, method, params, data, api_key) ==
    Returned(<<url, method, params, data>>)

\* client.make_request(*args) for the client object named client
make_request(client, args, resp) ==
    IF client = "ChargifyHttpClientStub"
    THEN Stub_make_request(args[1], args[2], args[3], args[4], args[5])
    ELSE HttpClient_make_request(args[1], args[2], args[3], args[4], args[5],
                                 resp)

\* CallArgs passing the method before the url
CallArgs_MethodFirst(f, ret) == <<ret[2], ret[1], ret[3], ret[4], f.api_key>>

\* Chargify.__call__, line 186: url, method, params, data = the returned
\* tuple; line 187: the arguments of client.make_request
CallArgs(f, ret) == <<ret[1], ret[2], ret[3], ret[4], f.api_key>>

\* Chargify.__call__, line 187: what the caller gets from the transport's
\* outcome
CallResult(outcome) == outcome

-----------------------------------------------------------------------------
(* Inputs *)

ApiKeys == {"api_key", "other_key"}

SubDomains == {"subdomain", "acme"}

\* the format argument of Chargify(...): not given, '', valid in several
\* spellings, and invalid
FormatArgs ==
    {None, StrVal(""), StrVal("json"), StrVal("XML"), StrVal("Json"),
     StrVal("csv"), StrVal("CSV")}

ClientArgs == {"None", "ChargifyHttpClientStub"}

\* names accessed on facades in the lifecycle specification
Attrs == {"customers", "products", "create"}

\* names the chains of the resolver specification are made of
Segments == {"customers", "products", "create", "read", "update", "delete"}

\* all chains of at most n names
RECURSIVE Chains(_)
Chains(n) ==
    IF n = 0 THEN {<<>>}
    ELSE LET shorter == Chains(n - 1)
         IN  shorter \cup {Append(c, a) : c \in {x \in shorter : Len(x) = n - 1},
                                          a \in Segments}

\* the values each keyword takes when it is passed
KeywordValues ==
    [k \in {"customer_id", "product_id", "data", "code"} |->
        CASE k = "customer_id" -> {IntVal(0), IntVal(123), StrVal("products")}
          [] k = "product_id"  -> {None, StrVal(""), IntVal(456),
                                   StrVal("customers")}
          [] k = "data"        -> {DictVal([j \in {"product_id"} |-> IntVal(1234)])}
          [] k = "code"        -> {StrVal("15OFF")}]

\* every kwargs dict over these keywords
AllKwargs ==
    UNION {[keys -> UNION {KeywordValues[k] : k \in keys}] :
              keys \in SUBSET DOMAIN KeywordValues}

Kwargs == {kw \in AllKwargs : \A k \in DOMAIN kw : kw[k] \in KeywordValues[k]}

\* the kwargs passed in the lifecycle specification
CallKwargs ==
    {EmptyDict,
     [k \in {"customer_id"} |-> IntVal(123)],
     [k \in {"product_id", "code"} |->
         IF k = "product_id" THEN IntVal(456) ELSE StrVal("15OFF")],
     [k \in {"customer_id", "data"} |->
         IF k = "customer_id" THEN IntVal(123)
         ELSE DictVal([j \in {"product_id"} |-> IntVal(1234)])]}

\* what requests.request gives in the lifecycle specification
Response(exc, status_code, content_type, body) ==
    [exc |-> exc, status_code |-> status_code, content_type |-> content_type,
     body |-> body]

\* no call of requests.request yet
NoResponse == Response("not called", 0, None, "")

Responses ==
    {Response("none", 200, StrVal("application/json"), "{}"),
     Response("none", 200, StrVal("text/html"), "ok"),
     Response("none", 404, StrVal("application/json"), "{\"errors\": \"x\"}"),
     Response("none", 503, StrVal("text/html"), "busy"),
     Response("requests.ConnectionError", 0, None, "")}

-----------------------------------------------------------------------------
(* Lifecycle specification: one caller builds a base client, chains *)
(* attribute accesses from any facade it holds, and invokes facades. *)

Init ==
    /\ facades = <<>>
    /\ format_arg = None
    /\ error = "none"
    /\ pc = "idle"
    /\ self = 0
    /\ kwargs = EmptyDict
    /\ path = <<>>
    /\ request = <<>>
    /\ sent = <<>>
    /\ response = NoResponse
    /\ result = NoResult
    /\ callers = EmptyDict

\* Chargify(api_key, sub_domain, client=..., format=...)
New(api_key, sub_domain, client, format) ==
    /\ pc = "idle"
    /\ facades = <<>>
    /\ LET made == Chargify_init(api_key, sub_domain, <<>>, client, format)
       IN  /\ error' = made.raised
           /\ facades' = IF made.raised = "none" THEN <<made.obj>> ELSE facades
    /\ format_arg' = format
    /\ UNCHANGED <<pc, self, kwargs, path, request, sent, response, result,
                   callers>>

\* facades[i].attr
GetAttr(i, attr) ==
    /\ pc = "idle"
    /\ i \in DOMAIN facades
    /\ Len(facades) < MaxFacades
    /\ Len(facades[i].path) < MaxPath
    /\ attr \notin OwnAttributes
    /\ LET made == Chargify_getattr(facades, i, attr)
       IN  /\ error' = made.raised
           /\ facades' = made.facades
    /\ UNCHANGED <<format_arg, pc, self, kwargs, path, request, sent, response,
                   result, callers>>

\* facades[i](**kw): __call__ is entered
Call(i, kw) ==
    /\ pc = "idle"
    /\ i \in DOMAIN facades
    /\ pc' = "called"
    /\ self' = i
    /\ kwargs' = kw
    /\ path' = <<>>
    /\ request' = <<>>
    /\ sent' = <<>>
    /\ result' = NoResult
    /\ response' = NoResponse
    /\ UNCHANGED <<facades, format_arg, error, callers>>

\* line 186: self.construct_request(**kwargs); an exception leaves __call__
ConstructRequest ==
    /\ pc = "called"
    /\ LET r == construct_request(facades[self], kwargs)
       IN  /\ facades' = [facades EXCEPT ![self].path = r.self_path]
           /\ IF r.raised # "none"
              THEN /\ pc' = "idle"
                   /\ result' = Raised(r.raised)
                   /\ UNCHANGED <<path, request>>
              ELSE /\ pc' = "resolved"
                   /\ path' = r.path
                   /\ request' = r.ret
                   /\ UNCHANGED result
    /\ UNCHANGED <<format_arg, error, self, kwargs, sent, response, callers>>

\* lines 187-188: return self.client.make_request(url, method, params, data,
\* self.api_key)
MakeRequest(resp) ==
    /\ pc = "resolved"
    /\ LET args == CallArgs(facades[self], request)
           outcome == make_request(facades[self].client, args, resp)
       IN  /\ sent' = Append(sent, [args |-> args, outcome |-> outcome])
           /\ result' = CallResult(outcome)
    /\ response' = IF facades[self].client = "ChargifyHttpClient"
                   THEN resp ELSE NoResponse
    /\ pc' = "idle"
    /\ UNCHANGED <<facades, format_arg, error, self, kwargs, path, request,
                   callers>>

Next ==
    \/ \E a \in ApiKeys, s \in SubDomains, c \in ClientArgs, f \in FormatArgs :
          New(a, s, c, f)
    \/ \E i \in 1..MaxFacades, attr \in Attrs : GetAttr(i, attr)
    \/ \E i \in 1..MaxFacades, kw \in CallKwargs : Call(i, kw)
    \/ ConstructRequest
    \/ \E resp \in Responses : MakeRequest(resp)

Spec == Init /\ [][Next]_vars

-----------------------------------------------------------------------------
(* Resolver specification: construct_request applied to a facade with any *)
(* chain of at most MaxPath names and any kwargs. *)

ResolverFormats == {"json", "XML"}

InitResolver ==
    /\ \E c \in Chains(MaxPath), fmt \in ResolverFormats :
          /\ facades = <<[api_key |-> "api_key", sub_domain |-> "subdomain",
                       path |-> c, client |-> "ChargifyHttpClientStub",
                       format |-> fmt]>>
          /\ format_arg = StrVal(fmt)
    /\ error = "none"
    /\ pc = "called"
    /\ self = 1
    /\ kwargs \in Kwargs
    /\ path = <<>>
    /\ request = <<>>
    /\ sent = <<>>
    /\ response = NoResponse
    /\ result = NoResult
    /\ callers = EmptyDict

NextResolver == ConstructRequest

SpecResolver == InitResolver /\ [][NextResolver]_vars

-----------------------------------------------------------------------------
(* Transport specification: ChargifyHttpClient.make_request applied to any *)
(* response of requests.request. *)

Statuses == {200, 201, 204, 400, 401, 403, 404, 409, 422, 500, 503}

\* the content-type header: missing, JSON in two spellings, or HTML
ContentTypes ==
    {None, StrVal("application/json"),
     StrVal("application/json; charset=utf-8"), StrVal("text/html")}

Bodies == {"{}", "{\"errors\": \"x\"}", "null", "busy"}

AllResponses ==
    {Response("none", st, ct, b) : st \in Statuses, ct \in ContentTypes,
                                   b \in Bodies}
    \cup {Response("requests.ConnectionError", 0, None, "")}

InitTransport ==
    /\ \E a \in ApiKeys :
          LET f == [api_key |-> a, sub_domain |-> "subdomain",
                    path |-> <<"customers">>, client |-> "ChargifyHttpClient",
                    format |-> "json"]
          IN  /\ facades = <<f>>
              /\ request = construct_request(f, EmptyDict).ret
    /\ format_arg = None
    /\ error = "none"
    /\ pc = "resolved"
    /\ self = 1
    /\ kwargs = EmptyDict
    /\ path = <<"customers">>
    /\ sent = <<>>
    /\ response = NoResponse
    /\ result = NoResult
    /\ callers = EmptyDict

NextTransport == \E resp \in AllResponses : MakeRequest(resp)

SpecTransport == InitTransport /\ [][NextTransport]_vars

-----------------------------------------------------------------------------
(* Vocabulary of the properties *)

\* the chain of the facade being invoked
Chain == facades[self].path

IdentifierKeys == {IDENTIFIERS[i][1] : i \in DOMAIN IDENTIFIERS}

ReservedNames == {"create", "read", "update", "delete"}

EndsInReserved(c) == Len(c) > 0 /\ c[Len(c)] \in ReservedNames

\* a chain without its last name
Front(c) == SubSeq(c, 1, Len(c) - 1)

\* the identifier keywords passed with a truthy value
Supplied == {k \in IdentifierKeys \cap DOMAIN kwargs : Truthy(kwargs[k])}

-----------------------------------------------------------------------------
(* Properties of construct_request, under SpecResolver *)

\* the resource name an identifier keyword is bound to
NameOf(k) == IDENTIFIERS[CHOOSE i \in DOMAIN IDENTIFIERS : IDENTIFIERS[i][1] = k][2]

Range(c) == {c[i] : i \in DOMAIN c}

\* the chain once a trailing action name is dropped
Kept == IF EndsInReserved(Chain) THEN Front(Chain) ELSE Chain

\* the chain c with the value of every supplied identifier placed right
\* after the first occurrence in c of the name it is bound to
RECURSIVE WithIdentifiers(_, _)
WithIdentifiers(c, i) ==
    IF i > Len(c) THEN <<>>
    ELSE LET first == \A j \in 1..(i - 1) : c[j] # c[i]
             ids == {k \in Supplied : NameOf(k) = c[i]}
         IN  <<c[i]>>
             \o (IF first /\ ids # {}
                 THEN <<Str(kwargs[CHOOSE k \in ids : TRUE])>> ELSE <<>>)
             \o WithIdentifiers(c, i + 1)

\* C1: every identifier keyword supplied with a truthy value whose resource
\* name occurs in the chain has str(value) as the path segment right after
\* the first occurrence of that name, for all identifiers of one call at
\* once: when all of them occur in the chain, the path is the chain (less a
\* trailing action) with each value placed after its name.
C1_IdentifierAfterItsSegment ==
    (pc = "resolved" /\ \A k \in Supplied : NameOf(k) \in Range(Chain)) =>
        path = WithIdentifiers(Kept, 1)

\* Where C1 does hold: calls in which no supplied value reads, as a string,
\* like a resource name of IDENTIFIERS (every call of the tests is one).
C1_HoldsWithoutNameLikeValues ==
    (/\ pc = "resolved"
     /\ \A k \in Supplied : NameOf(k) \in Range(Chain)
     /\ \A k \in Supplied :
            Str(kwargs[k]) \notin {IDENTIFIERS[i][2] : i \in DOMAIN IDENTIFIERS}) =>
        path = WithIdentifiers(Kept, 1)

\* C2: an identifier keyword supplied with a truthy value whose resource
\* name is nowhere in the chain does not make construct_request fail:
\* str(value) ends up at the end of the path.
C2_AbsentSegmentAppends ==
    LET absent == {k \in Supplied : NameOf(k) \notin Range(Chain)}
    IN  (pc # "called" /\ Len(Chain) > 0 /\ absent # {}) =>
            /\ pc = "resolved"
            /\ {path[i] : i \in (Len(path) - Cardinality(absent) + 1)..Len(path)}
                   = {Str(kwargs[k]) : k \in absent}

\* C3: the HTTP method of the descriptor is decided by the chain's final
\* segment alone: POST for create, GET for read, PUT for update, DELETE for
\* delete, GET for any other final segment, whatever the keyword arguments
\* and whatever reserved names stand in non-final positions.
C3_MethodFromFinalSegment ==
    pc = "resolved" =>
        LET last == Chain[Len(Chain)]
        IN  request[2] = CASE last = "create" -> "POST"
                           [] last = "read"   -> "GET"
                           [] last = "update" -> "PUT"
                           [] last = "delete" -> "DELETE"
                           [] OTHER           -> "GET"

\* a chain with a reserved name in a non-final position, keyword arguments
\* present, resolved to PUT by its final update
C3_Witness ==
    /\ pc = "resolved"
    /\ Chain = <<"delete", "customers", "update">>
    /\ DOMAIN kwargs = {"customer_id", "code"}
    /\ request[2] = "PUT"

\* C4: only a trailing create/read/update/delete is dropped from the path.
\* With no identifier keyword supplied the path segments of the URL are the
\* chain without that last element, in order; a chain not ending in a
\* reserved name keeps all its segments; reserved names in non-final
\* positions stay.  With identifiers supplied the path still holds every
\* kept chain segment plus one segment per inserted identifier.
C4_OnlyTrailingActionDropped ==
    pc = "resolved" =>
        LET kept == IF EndsInReserved(Chain) THEN Front(Chain) ELSE Chain
        IN  /\ Len(path) = Len(kept) + Cardinality(Supplied)
            /\ IdentifierKeys \cap DOMAIN kwargs = {} =>
                  /\ path = kept
                  /\ request[1] = "https://" \o facades[self].sub_domain
                                  \o ".chargify.com/" \o Join("/", kept) \o "."
                                  \o Lower(facades[self].format)

\* a chain with create in the middle and at the end: only the last is dropped
C4_Witness ==
    /\ pc = "resolved"
    /\ Chain = <<"customers", "create", "create">>
    /\ kwargs = [k \in {"code"} |-> StrVal("15OFF")]
    /\ path = <<"customers", "create">>
    /\ request[1] = "https://subdomain.chargify.com/customers/create.json"

\* C5: the query mapping is the keyword arguments minus every identifier
\* keyword (whether its value was truthy or falsy) and minus data; every
\* other keyword keeps its value and no key is added.
C5_QueryIsRemainingKwargs ==
    pc = "resolved" =>
        request[3] = [k \in DOMAIN kwargs \ (IdentifierKeys \cup {"data"}) |->
                         kwargs[k]]

\* a falsy customer_id, a truthy product_id, data and code: only code remains
C5_Witness ==
    /\ pc = "resolved"
    /\ DOMAIN kwargs = {"customer_id", "product_id", "data", "code"}
    /\ kwargs["customer_id"] = IntVal(0)
    /\ kwargs["product_id"] = IntVal(456)
    /\ request[3] = [k \in {"code"} |-> StrVal("15OFF")]

-----------------------------------------------------------------------------
(* Properties of the facade, under Spec *)

\* C7: accessing a name on a facade leaves every existing facade as it was
\* and yields one new facade: the accessed facade's path with the name
\* appended, the same credential, subdomain, format and transport.  The
\* base keeps its empty path however many chains are built from it.
C7_AccessIsNonMutating ==
    [][/\ \A i \in DOMAIN facades :
              i \in DOMAIN facades' /\ facades'[i] = facades[i]
       /\ (facades # <<>> /\ Len(facades') > Len(facades)) =>
              /\ Len(facades') = Len(facades) + 1
              /\ \E i \in DOMAIN facades, a \in Attrs :
                    facades'[Len(facades')] =
                        [facades[i] EXCEPT !.path = Append(facades[i].path, a)]
       /\ facades' # <<>> => facades'[1].path = <<>>]_vars

\* two chains built from one base, after an invocation: each holds only its
\* own segment
C7_Witness ==
    /\ Len(facades) = 3
    /\ facades[1].path = <<>>
    /\ facades[2].path = <<"customers">>
    /\ facades[3].path = <<"products">>
    /\ facades[3].sub_domain = "acme"
    /\ facades[3].format = "XML"
    /\ facades[3].client = "ChargifyHttpClientStub"
    /\ result.kind = "returned"

\* C8 as stated: a format outside {json, xml}, compared case-insensitively,
\* makes the construction fail and no facade is produced.
C8_InvalidFormatFails ==
    (format_arg.kind = "str" /\ Lower(format_arg.s) \notin VALID_FORMATS) =>
        error = "AssertionError" /\ facades = <<>>

\* C8 amended: a non-empty format outside {json, xml}, compared
\* case-insensitively, makes the construction fail at once: no facade is
\* produced and nothing is built or sent.  An empty format is taken as not
\* given and yields json.  No facade ever holds a format outside the enum.
C8_NonEmptyInvalidFormatFails ==
    /\ (Truthy(format_arg) /\ Lower(format_arg.s) \notin VALID_FORMATS) =>
          /\ error = "AssertionError"
          /\ facades = <<>>
          /\ pc = "idle"
          /\ request = <<>>
          /\ sent = <<>>
    /\ \A i \in DOMAIN facades : Lower(facades[i].format) \in VALID_FORMATS
    /\ format_arg = StrVal("") => \A i \in DOMAIN facades : facades[i].format = "json"

\* the construction with format 'CSV' has failed
C8_Witness ==
    /\ format_arg = StrVal("CSV")
    /\ error = "AssertionError"
    /\ facades = <<>>

\* C9: every URL is https:// + the subdomain + .chargify.com/ + the final
\* path segments joined by / + . + the lowercase form of the format given at
\* construction (json when none was given), also on chained facades.
C9_UrlShape ==
    pc = "resolved" =>
        request[1] =
            "https://" \o facades[1].sub_domain \o ".chargify.com/"
            \o Join("/", path) \o "."
            \o (CASE ~Truthy(format_arg) -> "json"
                  [] format_arg.s \in {"json", "Json"} -> "json"
                  [] format_arg.s \in {"xml", "XML"} -> "xml")

\* a facade two accesses away from a base built with format 'XML'
C9_Witness ==
    /\ pc = "resolved"
    /\ format_arg = StrVal("XML")
    /\ Chain = <<"customers", "create">>
    /\ kwargs = [k \in {"customer_id"} |-> IntVal(123)]
    /\ request[1] = "https://acme.chargify.com/customers/123.xml"

\* C10: a terminal invocation calls the transport's make_request once, with
\* (url, method, params, data, api_key): the four parts construct_request
\* returned and the credential given at construction; it gives its caller
\* what the transport returned, or the error the transport raised, and makes
\* no further transport call.  Before construct_request has returned, and
\* when it raises, the transport is not called.
C10_TransportCalledOnce ==
    /\ pc \in {"called", "resolved"} => sent = <<>>
    /\ (pc = "idle" /\ self # 0 /\ Len(request) = 0) =>
          sent = <<>> /\ result.kind = "raised"
    /\ (pc = "idle" /\ self # 0 /\ Len(request) = 4) =>
          /\ Len(sent) = 1
          /\ sent[1].args = <<request[1], request[2], request[3], request[4],
                              facades[1].api_key>>
          /\ result = sent[1].outcome
          /\ facades[self].client = "ChargifyHttpClientStub" =>
                /\ result.kind = "returned"
                /\ result.value = <<request[1], request[2], request[3],
                                    request[4]>>

\* the transport raised for a 404 response: the caller gets that error after
\* one transport call
C10_Witness ==
    /\ pc = "idle"
    /\ Len(sent) = 1
    /\ sent[1].outcome.exc = "ChargifyNotFoundError"
    /\ result.kind = "raised"
    /\ result.exc = "ChargifyNotFoundError"
    /\ result.status_code = 404
    /\ sent[1].args[2] = "POST"
    /\ sent[1].args[5] = "other_key"

-----------------------------------------------------------------------------
(* Properties of the transport, under SpecTransport *)

\* make_request has returned or raised for a response of the remote service
Answered == pc = "idle" /\ response.exc = "none"

\* the response's content-type header names JSON
JsonResponse == response.content_type.kind = "str" /\ HasJson(response.content_type.s)

\* the error kind the status table gives
TableError(status) ==
    CASE status = 401 -> "ChargifyUnauthorizedError"
      [] status = 403 -> "ChargifyForbiddenError"
      [] status = 404 -> "ChargifyNotFoundError"
      [] status = 409 -> "ChargifyDuplicateSubmissionError"
      [] status = 422 -> "ChargifyUnprocessableEntityError"
      [] status = 500 -> "ChargifyServerError"
      [] OTHER        -> "ChargifyError"

\* C11: for every non-success response make_request raises the error kind of
\* the status table (401 Unauthorized, 403 Forbidden, 404 NotFound, 409
\* DuplicateSubmission, 422 UnprocessableEntity, 500 ServerError, the base
\* ChargifyError for any other status); for a success response it raises
\* nothing.
C11_StatusTable ==
    Answered =>
        IF response.status_code >= 400
        THEN result.kind = "raised" /\ result.exc = TableError(response.status_code)
        ELSE result.kind = "returned"

\* Where C11 does hold: responses that carry a content-type header and, when
\* it names JSON, a body that parses.
C11_HoldsForWellFormedResponses ==
    (/\ Answered
     /\ response.content_type.kind = "str"
     /\ JsonResponse => JsonValid(response.body)) =>
        IF response.status_code >= 400
        THEN result.kind = "raised" /\ result.exc = TableError(response.status_code)
        ELSE result.kind = "returned"

\* C12: every error raised for a non-success response carries the status
\* code of the response and the decoded error payload: the parsed JSON body
\* when the content type is JSON (an empty one may read as {}), the raw
\* body, bare or under the key body, otherwise.
C12_ErrorCarriesStatusAndPayload ==
    (Answered /\ response.status_code >= 400) =>
        /\ result.kind = "raised"
        /\ result.status_code = response.status_code
        /\ (JsonResponse /\ JsonValid(response.body)) =>
              IF Truthy(JsonDecode(response.body))
              THEN result.error_data = JsonDecode(response.body)
              ELSE ~Truthy(result.error_data)
        /\ ~JsonResponse =>
              \/ result.error_data = StrVal(response.body)
              \/ result.error_data =
                     DictVal([k \in {"body"} |-> StrVal(response.body)])

\* Where C12 does hold: for responses that carry a content-type header and a
\* body that parses, the error has the response's status code and holds the
\* parsed JSON body ({} when it is falsy) or {'body': the raw body}.
C12_HoldsForWellFormedResponses ==
    (/\ Answered
     /\ response.status_code >= 400
     /\ response.content_type.kind = "str"
     /\ JsonResponse => JsonValid(response.body)) =>
        /\ result.kind = "raised"
        /\ result.status_code = response.status_code
        /\ result.error_data =
              IF JsonResponse
              THEN IF Truthy(JsonDecode(response.body))
                   THEN JsonDecode(response.body) ELSE DictVal(EmptyDict)
              ELSE DictVal([k \in {"body"} |-> StrVal(response.body)])

-----------------------------------------------------------------------------
(* Falsy identifiers, under SpecResolver *)

\* the values Python takes as false among those an identifier is given
Falsy == {None, IntVal(0), StrVal("")}

\* the identifier keywords passed with a falsy value
FalsyIdentifiers == {k \in IdentifierKeys \cap DOMAIN kwargs : kwargs[k] \in Falsy}

\* C13: an identifier keyword supplied with a falsy value (0, '', None) is
\* treated as absent: construct_request gives what the same call without
\* that keyword gives (the same url, method, query and body, or the same
\* error), the keyword is not in the query, its value is not a segment put
\* into the path, and a call whose identifiers are all falsy raises nothing
\* on a chain that is not empty, whether or not the chain has their names.
C13_FalsyIdentifierIsAbsent ==
    (pc # "called") =>
        /\ \A k \in FalsyIdentifiers :
              LET r == construct_request(facades[self], DictWithout(kwargs, k))
              IN  IF pc = "resolved"
                  THEN /\ r.raised = "none"
                       /\ r.ret = request
                       /\ r.path = path
                       /\ k \notin DOMAIN request[3]
                  ELSE result = Raised(r.raised)
        /\ (Supplied = {} /\ Len(Chain) > 0) =>
              /\ pc = "resolved"
              /\ path = Kept
              /\ DOMAIN request[3] = DOMAIN kwargs \ (IdentifierKeys \cup {"data"})

\* customer_id=0 and product_id='' passed on a chain that has neither
\* customers nor products
C13_Witness ==
    /\ pc = "resolved"
    /\ Chain = <<"create">>
    /\ DOMAIN kwargs = {"customer_id", "product_id", "code"}
    /\ kwargs["customer_id"] = IntVal(0)
    /\ kwargs["product_id"] = StrVal("")
    /\ request[1] = "https://subdomain.chargify.com/.json"
    /\ DOMAIN request[3] = {"code"}

-----------------------------------------------------------------------------
(* Invoking the base client, under Spec *)

\* C14: a terminal invocation on a facade whose path is empty fails, for any
\* keyword arguments, with the IndexError that construct_request raises: the
\* caller gets that error, no request descriptor is produced and the
\* transport is not called.
C14_EmptyPathFails ==
    /\ pc = "resolved" => Chain # <<>>
    /\ (pc = "idle" /\ self # 0 /\ Chain = <<>>) =>
          /\ result = Raised("IndexError")
          /\ request = <<>>
          /\ path = <<>>
          /\ sent = <<>>
          /\ response = NoResponse

\* the base client called with customer_id=123 after facades were chained
\* from it
C14_Witness ==
    /\ pc = "idle"
    /\ self = 1
    /\ Len(facades) > 1
    /\ facades[1].path = <<>>
    /\ kwargs = [k \in {"customer_id"} |-> IntVal(123)]
    /\ result = Raised("IndexError")
    /\ sent = <<>>

-----------------------------------------------------------------------------
(* Concurrent specification: several threads share one base client and the *)
(* facades chained from it; each chains accesses and invokes facades, and *)
(* construct_request runs statement by statement, interleaved with the *)
(* other threads. *)

Callers == {"t1", "t2"}

ConcurrentAttrs == {"customers", "create"}

ConcurrentKwargs ==
    {[k \in {"customer_id"} |-> IntVal(123)],
     [k \in {"customer_id", "data"} |->
         IF k = "customer_id" THEN IntVal(0)
         ELSE DictVal([j \in {"product_id"} |-> IntVal(1234)])]}

\* the locals of one thread: args is the kwargs the call was made with,
\* kwargs the dict construct_request pops from
IdleFrame ==
    [pc |-> "idle", self |-> 0, args |-> EmptyDict, kwargs |-> EmptyDict,
     alias |-> FALSE, path |-> <<>>, method |-> "", data |-> None,
     request |-> <<>>, result |-> NoResult]

\* the list the local name path of a thread refers to
LocalPath(fr) == IF fr.alias THEN facades[fr.self].path ELSE fr.path

\* the heap after a thread changes the list its local name path refers to
StorePath(fr, p) ==
    IF fr.alias THEN [facades EXCEPT ![fr.self].path = p] ELSE facades

Untouched ==
    UNCHANGED <<format_arg, error, pc, self, kwargs, path, request, sent,
                response, result>>

InitConcurrent ==
    /\ \E fmt \in ResolverFormats :
          /\ facades = <<Chargify_init("api_key", "subdomain", <<>>,
                                       "ChargifyHttpClientStub",
                                       StrVal(fmt)).obj>>
          /\ format_arg = StrVal(fmt)
    /\ error = "none"
    /\ pc = "idle"
    /\ self = 0
    /\ kwargs = EmptyDict
    /\ path = <<>>
    /\ request = <<>>
    /\ sent = <<>>
    /\ response = NoResponse
    /\ result = NoResult
    /\ callers = [c \in Callers |-> IdleFrame]

\* thread c evaluates facades[i].attr
CGetAttr(c, i, attr) ==
    /\ callers[c].pc = "idle"
    /\ i \in DOMAIN facades
    /\ Len(facades) < MaxFacades
    /\ Len(facades[i].path) < MaxPath
    /\ attr \notin OwnAttributes
    /\ facades' = Chargify_getattr(facades, i, attr).facades
    /\ UNCHANGED callers
    /\ Untouched

\* thread c enters facades[i](**kw)
CCall(c, i, kw) ==
    /\ callers[c].pc = "idle"
    /\ i \in DOMAIN facades
    /\ callers' = [callers EXCEPT ![c] =
                      [IdleFrame EXCEPT !.pc = "called", !.self = i,
                                        !.args = kw, !.kwargs = kw]]
    /\ UNCHANGED facades
    /\ Untouched

\* line 158
CCopyPath(c) ==
    /\ callers[c].pc = "called"
    /\ LET cp == CopyPath(facades[callers[c].self])
       IN  callers' = [callers EXCEPT ![c].pc = "copied",
                                      ![c].alias = cp.alias,
                                      ![c].path = cp.list]
    /\ UNCHANGED facades
    /\ Untouched

\* lines 162-166
CPopVerb(c) ==
    /\ callers[c].pc = "copied"
    /\ LET fr == callers[c]
           p == LocalPath(fr)
       IN  IF Len(p) = 0
           THEN /\ callers' = [callers EXCEPT ![c].pc = "idle",
                                   ![c].result = Raised("IndexError")]
                /\ UNCHANGED facades
           ELSE /\ callers' = [callers EXCEPT ![c].pc = "popped",
                                   ![c].method = InferMethod(p),
                                   ![c].path = PopAction(p)]
                /\ facades' = StorePath(fr, PopAction(p))
    /\ Untouched

\* lines 169-177
CIdentifiers(c) ==
    /\ callers[c].pc = "popped"
    /\ LET fr == callers[c]
           st == ExtractIdentifiers(1, [raised |-> "none",
                                       path |-> LocalPath(fr),
                                       kwargs |-> fr.kwargs])
       IN  /\ facades' = StorePath(fr, st.path)
           /\ IF st.raised # "none"
              THEN callers' = [callers EXCEPT ![c].pc = "idle",
                                  ![c].path = st.path,
                                  ![c].kwargs = st.kwargs,
                                  ![c].result = Raised(st.raised)]
              ELSE callers' = [callers EXCEPT ![c].pc = "extracted",
                                  ![c].path = st.path,
                                  ![c].kwargs = DictWithout(st.kwargs, "data"),
                                  ![c].data = PopData(st.kwargs)]
    /\ Untouched

\* lines 180-183
CBuildUrl(c) ==
    /\ callers[c].pc = "extracted"
    /\ LET fr == callers[c]
       IN  callers' = [callers EXCEPT ![c].pc = "resolved",
                          ![c].request =
                              <<BuildUrl(facades[fr.self], LocalPath(fr)),
                                fr.method, fr.kwargs, fr.data>>]
    /\ UNCHANGED facades
    /\ Untouched

\* lines 187-188
CMakeRequest(c) ==
    /\ callers[c].pc = "resolved"
    /\ LET fr == callers[c]
           f == facades[fr.self]
       IN  callers' = [callers EXCEPT ![c].pc = "idle",
                          ![c].result =
                              CallResult(make_request(f.client,
                                  CallArgs(f, fr.request), NoResponse))]
    /\ UNCHANGED facades
    /\ Untouched

NextConcurrent ==
    \E c \in Callers :
        \/ \E i \in 1..MaxFacades, attr \in ConcurrentAttrs : CGetAttr(c, i, attr)
        \/ \E i \in 1..MaxFacades, kw \in ConcurrentKwargs : CCall(c, i, kw)
        \/ CCopyPath(c)
        \/ CPopVerb(c)
        \/ CIdentifiers(c)
        \/ CBuildUrl(c)
        \/ CMakeRequest(c)

SpecConcurrent == InitConcurrent /\ [][NextConcurrent]_vars

-----------------------------------------------------------------------------
(* Properties of concurrent invocations, under SpecConcurrent *)

\* what the invocation of a thread gives when it runs alone
Alone(fr) == construct_request(facades[fr.self], fr.args)

\* the invocation of a thread has returned or raised
Finished(fr) == fr.pc = "idle" /\ fr.self # 0

\* the descriptor of each invocation is the one it gives run alone
DescriptorsAsAlone ==
    \A c \in Callers :
        LET fr == callers[c]
        IN  /\ (fr.pc = "resolved" \/ (Finished(fr) /\ fr.result.kind = "returned")) =>
                  /\ Alone(fr).raised = "none"
                  /\ fr.request = Alone(fr).ret
            /\ Finished(fr) =>
                  \/ /\ fr.result.kind = "returned"
                     /\ fr.result.value = <<fr.request[1], fr.request[2],
                                             fr.request[3], fr.request[4]>>
                  \/ /\ fr.result.kind = "raised"
                     /\ fr.result = Raised(Alone(fr).raised)
                     /\ fr.request = <<>>

\* the same invocation made by two threads gives the same descriptor
RepeatedGivesSame ==
    \A c, d \in Callers :
        (/\ Finished(callers[c]) /\ Finished(callers[d])
         /\ callers[c].self = callers[d].self
         /\ callers[c].args = callers[d].args) =>
            /\ callers[c].request = callers[d].request
            /\ callers[c].result = callers[d].result

\* no step changes a facade that exists
FacadesKept == \A i \in DOMAIN facades : facades'[i] = facades[i]

\* C15: terminal invocations are independent and leave facades unchanged:
\* in every interleaving of the invocations and chained accesses of several
\* threads on facades derived from one base, no step changes the path,
\* credential, subdomain or format of a facade, each invocation's
\* descriptor is the one it gives run alone on its facade's path and its
\* own keyword arguments, and the same invocation gives the same descriptor
\* again.
C15_InvocationsIndependent ==
    /\ [](DescriptorsAsAlone /\ RepeatedGivesSame)
    /\ [][FacadesKept]_vars

\* thread t1 has built POST customers/123 on the facade customers.create
\* while thread t2, after chaining from the same facade customers, is
\* between the statements of construct_request on that shared facade
C15_Witness ==
    /\ Len(facades) = 3
    /\ facades[2].path = <<"customers">>
    /\ facades[3].path = <<"customers", "create">>
    /\ callers["t1"].pc = "resolved"
    /\ callers["t1"].self = 3
    /\ callers["t1"].request[2] = "POST"
    /\ callers["t1"].path = <<"customers", "123">>
    /\ callers["t2"].pc = "popped"
    /\ callers["t2"].self = 3
    /\ callers["t2"].path = <<"customers">>

=============================================================================
